---- MODULE Spec2Model ----
(***************************************************************************)
(* code-snippet: the command of cmd/root.go.  Run reads the input, selects *)
(* a line range (extractLines) and renders the code to snippet.png         *)
(* (generateImage: tokenise, stage the font, measure, draw, copy, save).   *)
(*                                                                         *)
(* A string is a sequence of one-character strings.  Lengths are in pixels *)
(* (the constants of generateImage are whole numbers: 24 * 1.5 = 36).      *)
(***************************************************************************)
EXTENDS Integers, Sequences, FiniteSets, TLC

VARIABLES
    input,            \* what readInput finds: [kind, content]
    lineRange,        \* flag --lines
    copyToClipboard,  \* flag --copy
    fontAdvance,      \* advance of one glyph of fonts/font.ttf at 24pt, in 1/64 pixel
    pc,               \* position in Run / generateImage
    code, filename, startLine,
    res,              \* what the last call of extractLines returned
    out,              \* messages printed, in order
    exitCode,         \* -1 while running
    tokens, idx,      \* iterator.Tokens() and the position of the draw loop in it
    tempFont,         \* the temporary font file: "none", "font" (complete) or "bad"
    calls,            \* calls to the file system, the drawing surfaces and the sinks, in order
    dummyFace,        \* the font face of dummyDc (an advance in 1/64 pixel)
    lineCount, gutterWidth, imgHeight, maxLineWidth, imgWidth,
    xCodeStart, y, currentLineNum, currentX,
    gutter,           \* line numbers drawn: [num, y, left, right]
    drawn,            \* tokens drawn: [text, x, y, right]
    genErr            \* what generateImage returned: "" while running, "nil" or the error

vars == <<input, lineRange, copyToClipboard, fontAdvance, pc, code, filename,
          startLine, res, out, exitCode, tokens, idx, tempFont, calls, dummyFace,
          lineCount, gutterWidth, imgHeight, maxLineWidth, imgWidth, xCodeStart,
          y, currentLineNum, currentX, gutter, drawn, genErr>>

----------------------------------------------------------------------------
(* Bounds of the model *)

MaxDocLen == 3        \* characters of a document given to extractLines
MaxRangeLen == 4      \* characters of a range string
MaxDrawDocLen == 3    \* characters of a document given to generateImage
MaxStartLine == 2     \* generateImage is tried from every start line up to this
MaxTokens == 2        \* tokens of a token stream unrelated to the document
MaxChunk == 2         \* a lexer cuts a line into tokens of up to this many characters

----------------------------------------------------------------------------
(* Strings *)

NL == "\n"
TAB == "\t"

SeqsUpTo(S, n) == UNION {[1..k -> S] : k \in 0..n}

Digits == <<"0", "1", "2", "3", "4", "5", "6", "7", "8", "9">>

IsDigit(c) == \E i \in 1..10 : Digits[i] = c

DigitVal(c) == (CHOOSE i \in 1..10 : Digits[i] = c) - 1

RECURSIVE Split(_, _)
\* strings.Split(s, sep) for a one-character separator, by halves: the last
\* piece of the left half and the first piece of the right half are one piece
Split(s, sep) ==
    IF Len(s) = 0 THEN <<(<<>>)>>
    ELSE IF Len(s) = 1 THEN (IF s[1] = sep THEN <<(<<>>), (<<>>)>> ELSE <<s>>)
    ELSE LET mid == Len(s) \div 2
             l == Split(SubSeq(s, 1, mid), sep)
             r == Split(SubSeq(s, mid + 1, Len(s)), sep)
         IN  SubSeq(l, 1, Len(l) - 1) \o <<l[Len(l)] \o r[1]>> \o Tail(r)

RECURSIVE Join(_, _)
\* strings.Join(elems, sep)
Join(elems, sep) ==
    IF Len(elems) = 0 THEN <<>>
    ELSE IF Len(elems) = 1 THEN elems[1]
    ELSE elems[1] \o <<sep>> \o Join(Tail(elems), sep)

RECURSIVE ReplaceTabs(_)
\* strings.ReplaceAll(code, "\t", "    "), by halves
ReplaceTabs(s) ==
    IF Len(s) = 0 THEN <<>>
    ELSE IF Len(s) = 1
    THEN (IF s[1] = TAB THEN <<" ", " ", " ", " ">> ELSE s)
    ELSE LET mid == Len(s) \div 2
         IN  ReplaceTabs(SubSeq(s, 1, mid)) \o ReplaceTabs(SubSeq(s, mid + 1, Len(s)))

RECURSIVE DigitsValue(_, _)
\* the loop of strconv.Atoi: n = n*10 + digit
DigitsValue(s, n) ==
    IF Len(s) = 0 THEN n
    ELSE DigitsValue(Tail(s), n * 10 + DigitVal(Head(s)))

\* strconv.Atoi: an optional sign, then one or more decimal digits
Atoi(s) ==
    IF Len(s) = 0 THEN [ok |-> FALSE, val |-> 0]
    ELSE LET signed == s[1] \in {"-", "+"}
             body == IF signed THEN Tail(s) ELSE s
         IN  IF Len(body) < 1 \/ \E i \in 1..Len(body) : ~IsDigit(body[i])
             THEN [ok |-> FALSE, val |-> 0]
             ELSE [ok |-> TRUE,
                   val |-> IF s[1] = "-" THEN 0 - DigitsValue(body, 0)
                           ELSE DigitsValue(body, 0)]

RECURSIVE NatDigits(_)
NatDigits(n) ==
    IF n < 10 THEN <<Digits[n + 1]>>
    ELSE NatDigits(n \div 10) \o <<Digits[(n % 10) + 1]>>

\* fmt.Sprintf("%d", n)
Itoa(n) == IF n < 0 THEN <<"-">> \o NatDigits(0 - n) ELSE NatDigits(n)

----------------------------------------------------------------------------
(* extractLines *)

ExtractError(kind) == [err |-> kind, subset |-> <<>>, start |-> 0]

\* if start < 1 { start = 1 }
ClampStart(start) == IF start < 1 THEN 1 ELSE start

ClampEndOff(end, totalLines) == end

\* if end > totalLines { end = totalLines }
ClampEnd(end, totalLines) == IF end > totalLines THEN totalLines ELSE end

SliceLinesFromStart(lines, start, end) ==
    IF start < 0 \/ end > Len(lines) \/ start > end
    THEN [panic |-> TRUE, lines |-> <<>>]
    ELSE [panic |-> FALSE, lines |-> SubSeq(lines, start + 1, end)]

\* lines[start-1 : end]: a slice expression out of range panics
SliceLines(lines, start, end) ==
    IF start - 1 < 0 \/ end > Len(lines) \/ start - 1 > end
    THEN [panic |-> TRUE, lines |-> <<>>]
    ELSE [panic |-> FALSE, lines |-> SubSeq(lines, start, end)]

extractLines(doc, rangeStr) ==
    LET lines == Split(doc, NL)
        totalLines == Len(lines)
        parts == Split(rangeStr, "-")
    IN  IF Len(parts) # 2 THEN ExtractError("invalid format")
        ELSE LET a1 == Atoi(parts[1])
                 a2 == Atoi(parts[2])
             IN  IF ~a1.ok \/ ~a2.ok THEN ExtractError("not integers")
                 ELSE LET start == ClampStart(a1.val)
                          end == ClampEnd(a2.val, totalLines)
                      IN  IF start > end THEN ExtractError("start greater than end")
                          ELSE LET subset == SliceLines(lines, start, end)
                               IN  IF subset.panic THEN ExtractError("panic")
                                   ELSE [err |-> "nil",
                                         subset |-> Join(subset.lines, NL),
                                         start |-> start]

NoResult == [err |-> "", subset |-> <<>>, start |-> 0]

----------------------------------------------------------------------------
(* The state before generateImage has done anything *)

GenIdle ==
    /\ tokens = <<>> /\ idx = 0
    /\ tempFont = "none"
    /\ calls = <<>>
    /\ dummyFace = 0
    /\ lineCount = 0 /\ gutterWidth = 0 /\ imgHeight = 0
    /\ maxLineWidth = 0 /\ imgWidth = 0
    /\ xCodeStart = 0 /\ y = 0 /\ currentLineNum = 0 /\ currentX = 0
    /\ gutter = <<>> /\ drawn = <<>>
    /\ genErr = ""

genVars == <<tokens, idx, tempFont, calls, dummyFace, lineCount, gutterWidth,
             imgHeight, maxLineWidth, imgWidth, xCodeStart, y, currentLineNum,
             currentX, gutter, drawn, genErr>>

NoInput == [kind |-> "tty", content |-> <<>>]

----------------------------------------------------------------------------
(* extractLines as a function of its two arguments *)

DocChars == {"a", NL}
RangeChars == {"0", "1", "3", "-", "+", "x"}

InitExtract ==
    /\ input = NoInput
    /\ copyToClipboard = FALSE
    /\ fontAdvance = 0
    /\ pc = "extractLines"
    /\ code \in SeqsUpTo(DocChars, MaxDocLen)
    /\ lineRange \in SeqsUpTo(RangeChars, MaxRangeLen)
    /\ filename = ""
    /\ startLine = 1
    /\ res = NoResult
    /\ out = <<>>
    /\ exitCode = -1
    /\ GenIdle

CallExtractLines ==
    /\ pc = "extractLines"
    /\ res' = extractLines(code, lineRange)
    /\ pc' = "extracted"
    /\ UNCHANGED <<input, lineRange, copyToClipboard, fontAdvance, code, filename,
                   startLine, out, exitCode>>
    /\ UNCHANGED genVars

NextExtract == CallExtractLines

SpecExtract == InitExtract /\ [][NextExtract]_vars

----------------------------------------------------------------------------
(* generateImage: constants and the measure pass *)

FontSize == 24
Padding == 40
GutterMargin == 30
MinWidth == 600
NumberInset == 15

\* fontSize * lineSpacing, lineSpacing = 1.5
LineHeight == (FontSize * 3) \div 2

\* y := padding + 40.0
FirstBaseline == Padding + 40

\* the face of a fresh gg context until a font is loaded: basicfont.Face7x13
BasicFaceAdvance == 7 * 64

\* dc.MeasureString: the advances of the glyphs summed in 26.6 fixed point,
\* then cut to whole pixels (a >> 6).  The embedded font is monospace.
MeasureString(face, s) == (Len(s) * face) \div 64

GutterWidthOfStart(face, start, count) ==
    MeasureString(face, Itoa(start)) + GutterMargin

\* maxLineNumStr := Sprintf("%d", startLine+lineCount); gutterWidth += 30
GutterWidth(face, start, count) ==
    MeasureString(face, Itoa(start + count)) + GutterMargin

ImgHeightTwoPaddings(count) == count * LineHeight + Padding * 2

\* int(float64(lineCount)*fontSize*lineSpacing + padding*3)
ImgHeight(count) == count * LineHeight + Padding * 3

MaxLineWidthOfFirst(face, lines) == MeasureString(face, lines[1])

\* the loop over lines keeping the widest, starting from 0.0
MaxLineWidth(face, lines) ==
    LET ws == {MeasureString(face, lines[i]) : i \in 1..Len(lines)} \cup {0}
    IN  CHOOSE w \in ws : \A v \in ws : v <= w

\* imgWidth, floored to 600
ImgWidth(gutterW, maxW) ==
    LET w == Padding + gutterW + maxW + Padding
    IN  IF w < MinWidth THEN MinWidth ELSE w

\* code = strings.ReplaceAll(code, "\t", "    "), before the lexer and the measure pass
Normalize(s) == ReplaceTabs(s)

----------------------------------------------------------------------------
(* The lexer (chroma, outside the repository): a stream of token texts *)

RECURSIVE ChunkLine(_, _)
ChunkLine(line, k) ==
    IF Len(line) = 0 THEN <<>>
    ELSE IF Len(line) <= k THEN <<line>>
    ELSE <<SubSeq(line, 1, k)>> \o ChunkLine(SubSeq(line, k + 1, Len(line)), k)

RECURSIVE LexLines(_, _, _, _)
\* the tokens of lines lo..hi, by halves
LexLines(lines, lo, hi, k) ==
    IF lo > hi THEN <<>>
    ELSE IF lo = hi THEN ChunkLine(lines[lo], k)
    ELSE LET mid == (lo + hi) \div 2
         IN  LexLines(lines, lo, mid, k) \o <<(<<NL>>)>> \o LexLines(lines, mid + 1, hi, k)

\* a lexer that keeps the text: every line cut into tokens of at most k
\* characters, every line break a token of its own
Lex(text, k) == LET lines == Split(text, NL) IN LexLines(lines, 1, Len(lines), k)

\* a lexer configured with EnsureNL lexes the text with a final newline added
EnsureNL(text) ==
    IF Len(text) > 0 /\ text[Len(text)] = NL THEN text ELSE text \o <<NL>>

\* texts of a stream unrelated to the document: a line break, and a token
\* that spans a line break (a block comment, a raw string)
TokenTexts == {<<NL>>, <<"a", NL, "a">>}

\* what lexer.Tokenise may hand back for a text
TokenStreams(text) ==
    {Lex(t, k) : t \in {text, EnsureNL(text)}, k \in (1..MaxChunk) \cup {Len(text) + 1}}
    \cup SeqsUpTo(TokenTexts, MaxTokens)

----------------------------------------------------------------------------
(* generateImage, step by step *)

Call(op, ok) == [op |-> op, ok |-> ok]

runVars == <<input, lineRange, copyToClipboard, fontAdvance, filename, startLine,
             res, out>>

layoutVars == <<dummyFace, lineCount, gutterWidth, imgHeight, maxLineWidth, imgWidth>>

cursorVars == <<xCodeStart, y, currentLineNum, currentX, gutter, drawn, idx>>

\* lines 124-148: normalise, pick the lexer (never nil: the Go lexer is the
\* last resort), tokenise; Tokenise may return an error
GenTokenise ==
    /\ pc = "generateImage"
    /\ code' = Normalize(code)
    /\ \/ /\ genErr' = "tokenise"
          /\ pc' = "returned"
          /\ UNCHANGED tokens
       \/ /\ tokens' \in TokenStreams(code')
          /\ pc' = "stageFont"
          /\ UNCHANGED genErr
    /\ UNCHANGED <<runVars, exitCode, tempFont, calls, layoutVars, cursorVars>>

\* lines 150-154: the embedded font is copied to a temporary file; every error
\* is dropped.  When CreateTemp fails tempFont is nil: Write and Close return
\* an error and tempFont.Name() dereferences nil.
StageFont ==
    /\ pc = "stageFont"
    /\ \E readOK, writeOK \in BOOLEAN :
          \/ /\ calls' = calls \o <<Call("ReadFile", readOK), Call("CreateTemp", FALSE),
                                    Call("Write", FALSE), Call("Close", FALSE)>>
             /\ pc' = "panic"
             /\ exitCode' = 2
             /\ UNCHANGED tempFont
          \/ /\ calls' = calls \o <<Call("ReadFile", readOK), Call("CreateTemp", TRUE),
                                    Call("Write", writeOK), Call("Close", TRUE)>>
             /\ tempFont' = IF readOK /\ writeOK THEN "font" ELSE "bad"
             /\ pc' = "measure"
             /\ UNCHANGED exitCode
    /\ UNCHANGED <<runVars, code, tokens, layoutVars, cursorVars, genErr>>

TempFontLeft(file) == file

\* defer os.Remove(tempFont.Name()): the file is gone when generateImage returns
TempFontRemoved(file) == "none"

\* gg.LoadFontFace parses the file: it fails on anything but the whole font
FontLoads == tempFont = "font"

\* lines 157-180: the dry run on a 1x1 context
Measure ==
    /\ pc = "measure"
    /\ dummyFace' = IF FontLoads THEN fontAdvance ELSE BasicFaceAdvance
    /\ LET lines == Split(code, NL) IN
          /\ lineCount' = Len(lines)
          /\ gutterWidth' = GutterWidth(dummyFace', startLine, lineCount')
          /\ imgHeight' = ImgHeight(lineCount')
          /\ maxLineWidth' = MaxLineWidth(dummyFace', lines)
          /\ imgWidth' = ImgWidth(gutterWidth', maxLineWidth')
    /\ calls' = calls \o <<Call("dummyDc.LoadFontFace", FontLoads),
                           Call("dummyDc.MeasureString", TRUE)>>
    /\ pc' = "canvas"
    /\ UNCHANGED <<runVars, code, exitCode, tokens, tempFont, cursorVars, genErr>>

\* dc.DrawStringAnchored(Sprintf("%d", n), padding+gutterWidth-15, y, 1, 0)
GutterNumber(n, atY) ==
    LET right == Padding + gutterWidth - NumberInset
    IN  [num |-> n, y |-> atY, left |-> right - MeasureString(fontAdvance, Itoa(n)),
         right |-> right]

\* lines 183-200: the real surface, the font, the window, the first line number
Canvas ==
    /\ pc = "canvas"
    /\ \/ /\ ~FontLoads
          /\ calls' = calls \o <<Call("dc.LoadFontFace", FALSE), Call("Remove", TRUE)>>
          /\ genErr' = "font load"
          /\ tempFont' = TempFontRemoved(tempFont)
          /\ pc' = "returned"
          /\ UNCHANGED cursorVars
       \/ /\ FontLoads
          /\ calls' = calls \o <<Call("dc.LoadFontFace", TRUE), Call("dc.DrawString", TRUE)>>
          /\ xCodeStart' = Padding + gutterWidth
          /\ y' = FirstBaseline
          /\ currentLineNum' = startLine
          /\ currentX' = Padding + gutterWidth
          /\ gutter' = <<GutterNumber(startLine, FirstBaseline)>>
          /\ drawn' = <<>>
          /\ idx' = 1
          /\ pc' = "loop"
          /\ UNCHANGED <<genErr, tempFont>>
    /\ UNCHANGED <<runVars, code, exitCode, tokens, layoutVars>>

NumberInRangeOff(n) == TRUE

\* if currentLineNum < startLine+lineCount
NumberInRange(n) == n < startLine + lineCount

\* lines 202-228: one iteration of the token loop
DrawToken ==
    /\ pc = "loop"
    /\ idx <= Len(tokens)
    /\ idx' = idx + 1
    /\ \/ /\ tokens[idx] = <<NL>>
          /\ currentX' = xCodeStart
          /\ y' = y + LineHeight
          /\ currentLineNum' = currentLineNum + 1
          /\ gutter' = IF NumberInRange(currentLineNum')
                       THEN Append(gutter, GutterNumber(currentLineNum', y'))
                       ELSE gutter
          /\ UNCHANGED drawn
       \/ /\ tokens[idx] # <<NL>>
          /\ LET w == MeasureString(fontAdvance, tokens[idx]) IN
                /\ drawn' = Append(drawn, [text |-> tokens[idx], x |-> currentX,
                                           y |-> y, right |-> currentX + w])
                /\ currentX' = currentX + w
          /\ UNCHANGED <<y, currentLineNum, gutter>>
    /\ UNCHANGED <<runVars, code, exitCode, tokens, tempFont, calls, layoutVars,
                   xCodeStart, genErr, pc>>

DrawDone == pc = "loop" /\ idx > Len(tokens)

\* lines 230-236: the optional copy to the clipboard
Clipboard ==
    /\ DrawDone
    /\ \/ /\ ~copyToClipboard
          /\ pc' = "save"
          /\ UNCHANGED <<calls, genErr, tempFont>>
       \/ /\ copyToClipboard
          /\ calls' = calls \o <<Call("dc.EncodePNG", FALSE), Call("Remove", TRUE)>>
          /\ genErr' = "encode"
          /\ tempFont' = TempFontRemoved(tempFont)
          /\ pc' = "returned"
       \/ /\ copyToClipboard
          /\ calls' = calls \o <<Call("dc.EncodePNG", TRUE), Call("clipboard.Write", TRUE)>>
          /\ pc' = "save"
          /\ UNCHANGED <<genErr, tempFont>>
    /\ UNCHANGED <<runVars, code, exitCode, tokens, layoutVars, cursorVars>>

\* line 238 and the deferred os.Remove of line 154
Save ==
    /\ pc = "save"
    /\ \E ok \in BOOLEAN :
          /\ calls' = calls \o <<Call("dc.SavePNG", ok), Call("Remove", TRUE)>>
          /\ genErr' = IF ok THEN "nil" ELSE "save"
    /\ tempFont' = TempFontRemoved(tempFont)
    /\ pc' = "returned"
    /\ UNCHANGED <<runVars, code, exitCode, tokens, layoutVars, cursorVars>>

----------------------------------------------------------------------------
(* generateImage up to the end of the draw pass, from any document *)

DrawChars == {"a", TAB, NL}

\* fonts/font.ttf is not among the sources: its advance at 24pt is taken to
\* be a whole number of pixels (14) or a fractional one (922/64)
FontAdvances == {14 * 64, 922}

\* a document of n empty lines
BlankLines(n) == [i \in 1..(n - 1) |-> NL]

InitDraw ==
    /\ input = NoInput
    /\ lineRange = <<>>
    /\ copyToClipboard = FALSE
    /\ fontAdvance \in FontAdvances
    /\ pc = "generateImage"
    /\ code \in SeqsUpTo(DrawChars, MaxDrawDocLen) \cup {BlankLines(9), BlankLines(99)}
    /\ filename = "Stdin"
    /\ startLine \in (1..MaxStartLine) \cup {9, 98}
    /\ res = NoResult
    /\ out = <<>>
    /\ exitCode = -1
    /\ GenIdle

NextDraw == GenTokenise \/ StageFont \/ Measure \/ Canvas \/ DrawToken

SpecDraw == InitDraw /\ [][NextDraw]_vars

----------------------------------------------------------------------------
(* Run: the whole command *)

MaxInputLen == 2      \* characters of a file or of piped input

\* "a\nb\nc\n"
ThreeLines == <<"a", NL, "b", NL, "c", NL>>

InputDocs == SeqsUpTo(DocChars, MaxInputLen) \cup {ThreeLines}

\* a file argument (read or not), piped standard input, a terminal, or a
\* standard input that cannot be stat'ed
Inputs ==
    {[kind |-> k, content |-> d] : k \in {"file", "pipe"}, d \in InputDocs}
    \cup {[kind |-> k, content |-> <<>>] : k \in {"unreadable", "tty", "closed"}}

\* values of --lines; the empty string is the flag left out
LineRanges ==
    {<<>>, <<"2", "-", "3">>, <<"0", "-", "9">>, <<"3", "-", "1">>, <<"9", "-", "9">>,
     <<"x", "-", "1">>, <<"2">>, <<"1", "-", "2", "-", "3">>}

Init ==
    /\ input \in Inputs
    /\ lineRange \in LineRanges
    /\ copyToClipboard \in BOOLEAN
    /\ fontAdvance = 922     \* one of FontAdvances
    /\ pc = "readInput"
    /\ code = <<>>
    /\ filename = ""
    /\ startLine = 1
    /\ res = NoResult
    /\ out = <<>>
    /\ exitCode = -1
    /\ GenIdle

\* readInput: (content, name); ("", "") when there is nothing to read
readInput(in) ==
    IF in.kind = "file" THEN <<in.content, "main.go">>
    ELSE IF in.kind = "pipe" THEN <<in.content, "Stdin">>
    ELSE <<(<<>>), "">>

\* lines 37-42, with readInput: stat.Mode() on the nil FileInfo of a failed
\* os.Stdin.Stat() panics
ReadInput ==
    /\ pc = "readInput"
    /\ \/ /\ input.kind = "closed"
          /\ pc' = "panic"
          /\ exitCode' = 2
          /\ UNCHANGED <<code, filename, out>>
       \/ /\ input.kind # "closed"
          /\ code' = readInput(input)[1]
          /\ filename' = readInput(input)[2]
          /\ IF code' = <<>>
             THEN /\ out' = Append(out, "Error: No input provided.")
                  /\ pc' = "exit"
                  /\ exitCode' = 0
             ELSE /\ pc' = "clipboardInit"
                  /\ UNCHANGED <<out, exitCode>>
    /\ UNCHANGED <<input, lineRange, copyToClipboard, fontAdvance, startLine, res>>
    /\ UNCHANGED genVars

\* lines 44-48: a failed clipboard.Init is a warning
ClipboardInit ==
    /\ pc = "clipboardInit"
    /\ \/ /\ ~copyToClipboard
          /\ UNCHANGED out
       \/ /\ copyToClipboard
          /\ \E ok \in BOOLEAN :
                out' = IF ok THEN out
                       ELSE Append(out, "Warning: Failed to initialize clipboard")
    /\ pc' = "selectRange"
    /\ UNCHANGED <<input, lineRange, copyToClipboard, fontAdvance, code, filename,
                   startLine, res, exitCode>>
    /\ UNCHANGED genVars

\* lines 50-62
SelectRange ==
    /\ pc = "selectRange"
    /\ \/ /\ lineRange = <<>>
          /\ out' = Append(out, "Rendering")
          /\ pc' = "generateImage"
          /\ UNCHANGED <<code, startLine, res, exitCode>>
       \/ /\ lineRange # <<>>
          /\ res' = extractLines(code, lineRange)
          /\ IF res'.err = "panic"
             THEN /\ pc' = "panic"
                  /\ exitCode' = 2
                  /\ UNCHANGED <<code, startLine, out>>
             ELSE IF res'.err # "nil"
             THEN /\ out' = Append(out, "Error processing lines")
                  /\ pc' = "exit"
                  /\ exitCode' = 1
                  /\ UNCHANGED <<code, startLine>>
             ELSE /\ code' = res'.subset
                  /\ startLine' = res'.start
                  /\ out' = out \o <<"Extracted lines", "Rendering">>
                  /\ pc' = "generateImage"
                  /\ UNCHANGED exitCode
    /\ UNCHANGED <<input, lineRange, copyToClipboard, fontAdvance, filename>>
    /\ UNCHANGED genVars

\* lines 64-74
Finish ==
    /\ pc = "returned"
    /\ \/ /\ genErr # "nil"
          /\ out' = Append(out, "Error")
          /\ exitCode' = 1
       \/ /\ genErr = "nil"
          /\ out' = Append(out, IF copyToClipboard
                                THEN "Saved to snippet.png AND copied to clipboard!"
                                ELSE "Saved to snippet.png")
          /\ exitCode' = 0
    /\ pc' = "exit"
    /\ UNCHANGED <<input, lineRange, copyToClipboard, fontAdvance, code, filename,
                   startLine, res>>
    /\ UNCHANGED genVars

Next ==
    \/ ReadInput \/ ClipboardInit \/ SelectRange
    \/ GenTokenise \/ StageFont \/ Measure \/ Canvas \/ DrawToken \/ Clipboard \/ Save
    \/ Finish

Spec == Init /\ [][Next]_vars

----------------------------------------------------------------------------
(* What the claims speak of, stated from the text of the inputs *)

Min(a, b) == IF a < b THEN a ELSE b
Max(a, b) == IF a > b THEN a ELSE b

PositionsOf(s, c) == {i \in 1..Len(s) : s[i] = c}

\* N: the number of pieces when the text is split on newline
LinesOf(doc) == Cardinality(PositionsOf(doc, NL)) + 1

\* the position of the k-th newline; 0 before the first line, past the end
\* after the last
NewlineAt(doc, k) ==
    IF k = 0 THEN 0
    ELSE IF k = LinesOf(doc) THEN Len(doc) + 1
    ELSE CHOOSE i \in PositionsOf(doc, NL) :
             Cardinality({j \in PositionsOf(doc, NL) : j <= i}) = k

\* the text of lines lo..hi (1-indexed, inclusive) with the newlines between them
LinesText(doc, lo, hi) == SubSeq(doc, NewlineAt(doc, lo - 1) + 1, NewlineAt(doc, hi) - 1)

SetMax(S) == CHOOSE m \in S : \A v \in S : v <= m

\* the number of characters of the longest line: the longest run without a newline
LongestLine(doc) ==
    SetMax({i - SetMax({j \in PositionsOf(doc, NL) : j < i} \cup {0}) :
                i \in (1..Len(doc)) \ PositionsOf(doc, NL)} \cup {0})

DashAt(s) == CHOOSE i \in PositionsOf(s, "-") : TRUE
LeftPart(s) == SubSeq(s, 1, DashAt(s) - 1)
RightPart(s) == SubSeq(s, DashAt(s) + 1, Len(s))

Unsigned(p) == IF Len(p) > 0 /\ p[1] \in {"+", "-"} THEN Tail(p) ELSE p

IsIntegerText(p) ==
    /\ Len(Unsigned(p)) >= 1
    /\ \A i \in 1..Len(Unsigned(p)) : Unsigned(p)[i] \in {"0", "1", "2", "3", "4", "5", "6", "7", "8", "9"}

RECURSIVE Pow10(_)
Pow10(k) == IF k = 0 THEN 1 ELSE 10 * Pow10(k - 1)

RECURSIVE PlaceSum(_, _)
PlaceSum(d, i) ==
    IF i > Len(d) THEN 0
    ELSE DigitVal(d[i]) * Pow10(Len(d) - i) + PlaceSum(d, i + 1)

IntegerOf(p) == IF p[1] = "-" THEN 0 - PlaceSum(Unsigned(p), 1) ELSE PlaceSum(Unsigned(p), 1)

\* "s-e" with two integer parts
RangeWellFormed(r) ==
    /\ Cardinality(PositionsOf(r, "-")) = 1
    /\ IsIntegerText(LeftPart(r))
    /\ IsIntegerText(RightPart(r))

RangeLo(r) == Max(IntegerOf(LeftPart(r)), 1)
RangeHi(r, doc) == Min(IntegerOf(RightPart(r)), LinesOf(doc))

DigitCount(n) == CHOOSE d \in 1..6 : Pow10(d - 1) <= n /\ n < Pow10(d)

\* the width of a string of n glyphs
WidthOfGlyphs(face, n) == (n * face) \div 64

CalledOps == {calls[i].op : i \in 1..Len(calls)}

SucceededOps == {calls[i].op : i \in {j \in 1..Len(calls) : calls[j].ok}}

FailedOps == {calls[i].op : i \in {j \in 1..Len(calls) : ~calls[j].ok}}

Measured == lineCount > 0

CanvasReady == gutter # <<>>

Returned == pc \in {"returned", "exit"} /\ genErr # ""

NewlineTokens(upTo) == Cardinality({i \in 1..upTo : tokens[i] = <<NL>>})

RECURSIVE ConcatRange(_, _, _)
ConcatRange(ts, lo, hi) ==
    IF lo > hi THEN <<>>
    ELSE IF lo = hi THEN ts[lo]
    ELSE ConcatRange(ts, lo, (lo + hi) \div 2) \o ConcatRange(ts, (lo + hi) \div 2 + 1, hi)

\* the texts concatenate to the document and a line break is a token of its own
Conforms(ts, doc) ==
    /\ \A i \in 1..Len(ts) : ts[i] = <<NL>> \/ PositionsOf(ts[i], NL) = {}
    /\ ConcatRange(ts, 1, Len(ts)) = doc

----------------------------------------------------------------------------
(* Claims *)

\* C1: for a range "s-e" with integer parts and max(s,1) <= min(e,N),
\* extractLines succeeds, returns the text of lines max(s,1)..min(e,N) joined
\* with newlines and max(s,1) as the starting line number; so a start below
\* 1 does what start 1 does and an end above N what end N does.
ExtractReturnsClampedLines ==
    (pc = "extracted" /\ RangeWellFormed(lineRange)
        /\ RangeLo(lineRange) <= RangeHi(lineRange, code))
    => /\ res.err = "nil"
       /\ res.subset = LinesText(code, RangeLo(lineRange), RangeHi(lineRange, code))
       /\ res.start = RangeLo(lineRange)
       /\ res = extractLines(code, Itoa(RangeLo(lineRange)) \o <<"-">>
                                   \o Itoa(RangeHi(lineRange, code)))

\* C1 witness: a start below 1 and an end above N were both clamped
ClampedBothEnds ==
    /\ pc = "extracted" /\ RangeWellFormed(lineRange)
    /\ IntegerOf(LeftPart(lineRange)) < 1
    /\ IntegerOf(RightPart(lineRange)) > LinesOf(code)
    /\ LinesOf(code) >= 2
    /\ res.err = "nil"

\* C2: extractLines fails with a format error exactly when the string is not
\* two dash-separated integers, with a range error exactly when start > end
\* after clamping, and otherwise slices with 1 <= start <= end <= N: it never
\* indexes out of bounds and never succeeds with zero lines.
ExtractFailsExactlyOnBadRange ==
    pc = "extracted"
    => /\ res.err # "panic"
       /\ res.err = "invalid format" <=> Cardinality(PositionsOf(lineRange, "-")) # 1
       /\ res.err \in {"invalid format", "not integers"} <=> ~RangeWellFormed(lineRange)
       /\ res.err = "start greater than end"
             <=> (RangeWellFormed(lineRange)
                  /\ RangeLo(lineRange) > RangeHi(lineRange, code))
       /\ res.err = "nil"
             => /\ 1 <= res.start
                /\ res.start <= RangeHi(lineRange, code)
                /\ RangeHi(lineRange, code) <= LinesOf(code)
                /\ LinesOf(res.subset) = RangeHi(lineRange, code) - res.start + 1
                /\ LinesOf(res.subset) >= 1

\* C2 witness: a start beyond the last line is a range error
StartBeyondLastLine ==
    /\ pc = "extracted" /\ RangeWellFormed(lineRange)
    /\ IntegerOf(LeftPart(lineRange)) > LinesOf(code)
    /\ IntegerOf(RightPart(lineRange)) > LinesOf(code)
    /\ res.err = "start greater than end"

\* C3: the temporary font file is created before any measurement or draw
\* call, and no temporary font file is left once generateImage has returned,
\* whichever way it returned.
TempFontScoped ==
    /\ \A i \in 1..Len(calls) :
          calls[i].op \in {"dummyDc.LoadFontFace", "dummyDc.MeasureString",
                           "dc.LoadFontFace", "dc.DrawString"}
          => \E j \in 1..(i - 1) : calls[j].op = "CreateTemp" /\ calls[j].ok
    /\ Returned => tempFont = "none"
    /\ (Returned /\ "CreateTemp" \in CalledOps) => calls[Len(calls)] = Call("Remove", TRUE)

\* C3 witness: the render returned the clipboard-encode error after the file
\* had been created
ReturnedEncodeError ==
    /\ pc = "returned" /\ genErr = "encode"
    /\ "CreateTemp" \in SucceededOps

\* C4: whenever the draw pass completes the surface is saved to snippet.png,
\* whatever the clipboard flag and whatever the clipboard step did.
SavedWheneverDrawn ==
    (Returned /\ CanvasReady /\ idx > Len(tokens)) => "dc.SavePNG" \in CalledOps

\* C5: every invocation ends in success (exit 0 after snippet.png is
\* written), in no-input (the message, exit 0, and nothing else done) or in a
\* failure that is reported with a non-zero exit.
EndsInOneOfThreeOutcomes ==
    pc \in {"exit", "panic"}
    => \/ /\ exitCode = 0
          /\ "dc.SavePNG" \in SucceededOps
          /\ out[Len(out)] \in {"Saved to snippet.png",
                                "Saved to snippet.png AND copied to clipboard!"}
       \/ /\ exitCode = 0
          /\ out = <<"Error: No input provided.">>
          /\ res = NoResult /\ tokens = <<>> /\ calls = <<>>
       \/ /\ exitCode # 0
          /\ out # <<>>
          /\ out[Len(out)] \in {"Error processing lines", "Error"}
          /\ "dc.SavePNG" \notin SucceededOps

\* C6: the gutter is as wide as the decimal string of startLine + lineCount
\* plus 30; no number drawn has more digits than that string, so each
\* right-aligned number lies between the left padding and the code column;
\* 9 lines from line 1 get a narrower gutter than 99 lines.
GutterFitsEveryNumber ==
    Measured
    => /\ gutterWidth = WidthOfGlyphs(dummyFace, DigitCount(startLine + lineCount)) + 30
       /\ \A k \in 1..Len(gutter) :
             /\ DigitCount(gutter[k].num) <= DigitCount(startLine + lineCount)
             /\ gutter[k].right - gutter[k].left
                   = WidthOfGlyphs(fontAdvance, DigitCount(gutter[k].num))
             /\ gutter[k].right = 40 + gutterWidth - 15
             /\ gutter[k].left > 40
             /\ gutter[k].right < 40 + gutterWidth
       /\ (startLine = 1 /\ lineCount = 9)
             => gutterWidth < GutterWidth(dummyFace, 1, 99)
       /\ (startLine = 1 /\ lineCount = 99)
             => gutterWidth > GutterWidth(dummyFace, 1, 9)

\* C6 witness: all 99 numbers of a 99-line document starting at 1 are drawn
NinetyNineNumbersDrawn ==
    /\ startLine = 1 /\ lineCount = 99
    /\ Len(gutter) = 99

\* C7: when the font bytes cannot be read or the temporary file cannot be
\* written nothing is reported there; the render goes on to the font load on
\* the real surface and returns its error; nothing is saved or copied.
StagingFailureSurfacesAtFontLoad ==
    ({"ReadFile", "Write"} \cap FailedOps # {})
    => /\ pc # "panic"
       /\ pc \in {"measure", "canvas"} => out[Len(out)] = "Rendering"
       /\ pc \notin {"loop", "save"}
       /\ Returned => /\ genErr = "font load"
                      /\ "dc.LoadFontFace" \in FailedOps
                      /\ {"dc.SavePNG", "clipboard.Write"} \cap CalledOps = {}

\* C8: the image height is 36 per line plus 120: one more line adds exactly
\* 36, and the two lines picked by "2-3" from "a\nb\nc\n" get height 192.
HeightIsLinesPlusPadding ==
    Measured
    => /\ imgHeight = LinesOf(code) * 36 + 120
       /\ ImgHeight(Len(Split(code \o <<NL, "a">>, NL))) = imgHeight + 36
       /\ (input.content = ThreeLines /\ lineRange = <<"2", "-", "3">>)
             => /\ code = <<"b", NL, "c">>
                /\ startLine = 2
                /\ imgHeight = 192

\* C8 witness: the excerpt "2-3" of "a\nb\nc\n" has been measured
ExcerptMeasured ==
    /\ Measured
    /\ input.content = ThreeLines /\ lineRange = <<"2", "-", "3">>
    /\ imgHeight = 192

\* C9: the numbers drawn are startLine before the loop, then one more per
\* newline token, consecutive, the k-th at y = 80 + 36*(k-1); none is
\* >= startLine + lineCount however many newline tokens there are; with at
\* least lineCount - 1 newline tokens exactly startLine ..
\* startLine + lineCount - 1 are drawn, each once.
GutterNumbersConsecutive ==
    CanvasReady
    => /\ Len(gutter) = Min(lineCount, 1 + NewlineTokens(idx - 1))
       /\ \A k \in 1..Len(gutter) :
             /\ gutter[k].num = startLine + k - 1
             /\ gutter[k].y = 80 + 36 * (k - 1)
             /\ gutter[k].num < startLine + lineCount
       /\ y = 80 + 36 * NewlineTokens(idx - 1)
       /\ (idx > Len(tokens) /\ NewlineTokens(Len(tokens)) >= lineCount - 1)
             => {gutter[k].num : k \in 1..Len(gutter)}
                   = startLine..(startLine + lineCount - 1)
                /\ Len(gutter) = lineCount

\* C9 witness: the loop ended on a stream with more newline tokens than the
\* document has line breaks
MoreNewlinesThanLineBreaks ==
    /\ CanvasReady /\ idx > Len(tokens)
    /\ lineCount >= 2
    /\ NewlineTokens(Len(tokens)) > lineCount - 1
    /\ Len(gutter) = lineCount

====
